---- MODULE Spec2Model ----
(***************************************************************************)
(* A model of the a-sync core (packages/core/src/index.ts): the per-entity *)
(* sync unit SyncDefineApi with its storage-key derivation, the            *)
(* stale-while-revalidate read generator callGet, the optimistic write     *)
(* callSet with bounded retry, and the persisted list of pending writes    *)
(* with its replay retryPendingItems.                                      *)
(*                                                                         *)
(* Every async function is cut at its awaits: one action resumes a call    *)
(* from the await it is suspended at, with the outcome of the awaited      *)
(* storage operation or user callback, and runs it to its next await.      *)
(***************************************************************************)
EXTENDS Integers, Sequences, FiniteSets, TLC

\* Bounds of the model.
MaxRetries == 2     \* largest configured apiSetRetries
MaxPending == 2     \* calls start only while the pending list can take their appends

(***************************************************************************)
(* Values.  A field value is a number or a string; an entity or argument   *)
(* object is a function from field names to field values.                  *)
(***************************************************************************)
NumV(k) == [t |-> "num", n |-> k, s |-> ""]
StrV(x) == [t |-> "str", n |-> 0, s |-> x]

\* `${value}` of a template literal: a number prints its digits, a string itself.
Render(v) == IF v.t = "num" THEN ToString(v.n) ELSE v.s

\* null, as returned by getItem for a missing entry and yielded on failure.
Null == [null |-> TRUE]
\* undefined: what getData gives for no entry, and a property that is not there.
Undefined == [undefined |-> TRUE]

\* An object literal {name: value, ...} with one or two fields.
Obj1(f, v) == [x \in {f} |-> v]
Obj2(f, v, g, w) == [x \in {f, g} |-> IF x = f THEN v ELSE w]

SpreadParamsOnly(existing, params) == params

\* {...existing, ...params}: the fields of params over those of existing;
\* typeof null is "object" and spreading null adds no field.
Spread(existing, params) ==
    LET base == IF existing = Null THEN << >> ELSE existing
    IN  [x \in (DOMAIN base) \cup (DOMAIN params) |->
            IF x \in DOMAIN params THEN params[x] ELSE base[x]]

(***************************************************************************)
(* Key derivation.                                                         *)
(***************************************************************************)
\* The property names of the model in the order of String.localeCompare.
LocaleOrder == <<"a", "id", "t">>
Rank(p) == CHOOSE i \in 1..Len(LocaleOrder) : LocaleOrder[i] = p
localeCompare(a, b) == Rank(a) - Rank(b)

\* Array.prototype.sort with the comparator localeCompare (stable insertion).
RECURSIVE InsertSorted(_, _)
InsertSorted(sorted, p) ==
    IF sorted = << >> THEN <<p>>
    ELSE IF localeCompare(p, Head(sorted)) < 0 THEN <<p>> \o sorted
    ELSE <<Head(sorted)>> \o InsertSorted(Tail(sorted), p)

RECURSIVE SortProps(_)
SortProps(props) ==
    IF props = << >> THEN << >>
    ELSE InsertSorted(SortProps(SubSeq(props, 1, Len(props) - 1)), props[Len(props)])

\* Array.prototype.join.
RECURSIVE Join(_, _)
Join(parts, sep) ==
    IF parts = << >> THEN ""
    ELSE IF Len(parts) = 1 THEN parts[1]
    ELSE parts[1] \o sep \o Join(Tail(parts), sep)

\* The pairs with the absent properties rendered too.
RECURSIVE PairsOfWithAbsent(_, _)
PairsOfWithAbsent(props, args) ==
    IF props = << >> THEN << >>
    ELSE LET p == Head(props)
             rest == PairsOfWithAbsent(Tail(props), args)
         IN  IF p \in DOMAIN args
             THEN <<p \o ":" \o Render(args[p])>> \o rest
             ELSE <<p \o ":undefined">> \o rest

\* .map(prop => value defined ? `${prop}:${value}` : null).filter(p => !!p)
RECURSIVE PairsOf(_, _)
PairsOf(props, args) ==
    IF props = << >> THEN << >>
    ELSE LET p == Head(props)
             rest == PairsOf(Tail(props), args)
         IN  IF p \in DOMAIN args
             THEN <<p \o ":" \o Render(args[p])>> \o rest
             ELSE rest

StorageKeyMissorted(key, uniqueProperties, args) ==
    IF Len(uniqueProperties) = 0 THEN key
    ELSE LET uniqueHash == Join(PairsOf(uniqueProperties, args), "|")
         IN  IF uniqueHash # "" THEN key \o "|" \o uniqueHash ELSE key

generateStorageKey(key, uniqueProperties, args) ==
    IF Len(uniqueProperties) = 0 THEN key
    ELSE LET uniqueHash == Join(PairsOf(SortProps(uniqueProperties), args), "|")
         IN  IF uniqueHash # "" THEN key \o "|" \o uniqueHash ELSE key

\* this.uniqueProperties after generateStorageKey: sort() sorts it in place.
SortedInPlace(uniqueProperties) ==
    IF Len(uniqueProperties) = 0 THEN uniqueProperties ELSE SortProps(uniqueProperties)

(***************************************************************************)
(* The configuration: two units registered on one store.  Identity keys    *)
(* are arbitrary strings; the second one extends the first, so that keys   *)
(* derived for different units can coincide.                               *)
(***************************************************************************)
Units == {1, 2}
UnitKey == <<"u", "u|id:1">>
DeclaredProps == << <<"id", "a">>, <<"id">> >>
\* Which callbacks were attached with get(fn) and set(fn).
HasGet == <<TRUE, FALSE>>
HasSet == <<TRUE, TRUE>>
\* The apiSetRetries each unit may be configured with: the first unit without
\* retry or with the largest budget, the second without retry.
UnitBudgets == <<{0, MaxRetries}, {0}>>

\* The argument objects the application passes to each unit, and the
\* entities the user callbacks may resolve with.
UnitArgs == << {Obj1("id", NumV(1)), Obj1("t", NumV(1))}, {Obj1("t", NumV(1))} >>
Results == {Obj2("id", NumV(1), "t", NumV(2)), Obj1("t", NumV(3))}
\* What a caller may pass: an object, or null, an array, a primitive.
ValidArgs(u) == {[shape |-> "object", obj |-> o] : o \in UnitArgs[u]}
InvalidArgs == {[shape |-> sh, obj |-> << >>] : sh \in {"null", "array", "primitive"}}

\* The concurrent calls the model follows.
Slots == {1, 2}

VARIABLES
    cache,              \* the store's entries by storage key (absent: getItem gives null)
    pending,            \* the list persisted under the pending-items key
    apiSetRetries,      \* per unit: its retry budget
    uniqueProperties,   \* per unit: its array of unique property names
    calls,              \* per slot: the call in flight (locals, position, what it did so far)
    last,               \* the read that completed just before, when it found no entry
    derived,            \* two key derivations: their inputs and, once made, their keys
    registry,           \* the SyncEngineApi: its online listener and its replay of all units
    query               \* the query function of useAsyncQuery: what it read and holds

vars == <<cache, pending, apiSetRetries, uniqueProperties, calls, last, derived, registry, query>>

\* What is kept of the previous call: the key and the value of a read that
\* found no entry under its key and produced the value of its callback.
NoRead == [fresh |-> FALSE, key |-> "", data |-> Null]
Summary(c) ==
    IF /\ c.kind = "read"
       /\ c.key \notin DOMAIN c.cache0
       /\ Len(c.yields) = 1
       /\ c.yields[1].data # Null
    THEN [fresh |-> TRUE, key |-> c.key, data |-> c.yields[1].data]
    ELSE NoRead

NoRet == [tag |-> "none", err |-> "", data |-> Null]
Threw(e) == [tag |-> "threw", err |-> e, data |-> Null]
Returned(d) == [tag |-> "data", err |-> "", data |-> d]

Idle == [kind |-> "none", pc |-> "idle", unit |-> 0,
         args |-> [shape |-> "null", obj |-> << >>],
         key |-> "", existing |-> Null, isOnline |-> FALSE, res |-> Null, i |-> 0,
         list |-> << >>, items |-> << >>, idx |-> 0,
         \* what the call did so far
         getCalls |-> 0, setCalls |-> 0, cbRes |-> << >>, late |-> 0, dropped |-> 0,
         errEv |-> << >>, dataEv |-> << >>, yields |-> << >>,
         io |-> FALSE, fault |-> FALSE, ret |-> NoRet,
         \* the store when the call was made
         cache0 |-> << >>, pending0 |-> << >>]

\* The SyncEngineApi after its constructor (lines 379-385), in a host with a
\* window: the units are registered, the online listener is attached, and
\* retryAllPendingItems is not running.  Of a run of retryAllPendingItems:
\* who invoked it, the units it has called retryPendingItems on, the slot of
\* the call it awaits, and how its promise settled.
definedKeys == <<1, 2>>
NoRun == [by |-> "none", state |-> "idle", drained |-> << >>, awaiting |-> 0]
Constructed == [listening |-> TRUE, run |-> NoRun]

\* No query function runs: nothing was read, latestData and the data of the
\* query client are null and undefined, nothing was returned.
NoQuery ==
    [elements |-> << >>, taken |-> 0, latestData |-> Null, queryData |-> Undefined,
     ret |-> NoRet]

NoDerivation ==
    [key |-> "", props1 |-> << >>, props2 |-> << >>, fields1 |-> << >>, fields2 |-> << >>,
     made |-> FALSE, key1 |-> "", key2 |-> "", sorted1 |-> << >>, sorted2 |-> << >>]

Init ==
    /\ cache = << >>
    /\ pending = << >>
    /\ apiSetRetries \in {f \in [Units -> 0..MaxRetries] :
                               \A u \in Units : f[u] \in UnitBudgets[u]}
    /\ uniqueProperties = [u \in Units |-> DeclaredProps[u]]
    /\ calls = [s \in Slots |-> Idle]
    /\ last = NoRead
    /\ derived = NoDerivation
    /\ registry = Constructed
    /\ query = NoQuery

(***************************************************************************)
(* The store (localForage).                                                *)
(***************************************************************************)
getItem(key) == IF key \in DOMAIN cache THEN cache[key] ELSE Null
setItem(key, value) ==
    [k \in (DOMAIN cache) \cup {key} |-> IF k = key THEN value ELSE cache[k]]

\* validateArgs: a non-null, non-array object.
validateArgsAllowsArrays(value) == value.shape \in {"object", "array"}
validateArgs(value) == value.shape = "object"

\* emitData and emitError: the notification is appended to what the call did.
emitData(c, data, dataKey) ==
    [c EXCEPT !.dataEv = Append(@, [data |-> data, dataKey |-> dataKey])]
emitError(c, msg, hasKey, dataKey) ==
    [c EXCEPT !.errEv = Append(@, [msg |-> msg, hasKey |-> hasKey, dataKey |-> dataKey])]

\* A call starts in the lowest slot, and, when calls are not interleaved, only
\* when no other call is in flight.
CanStart(s, interleaved) ==
    /\ calls[s].pc = "idle"
    /\ \A t \in Slots : t < s => calls[t].pc # "idle"
    /\ interleaved \/ \A t \in Slots : calls[t].pc = "idle"

Started(kind, u, args) ==
    [Idle EXCEPT !.kind = kind, !.unit = u, !.args = args,
                 !.cache0 = cache, !.pending0 = pending]

StoreOk(c) == c
\* A storage operation rejected: control is in a catch block, where the
\* result of the try block is out of scope.
StoreFailed(c) == [c EXCEPT !.fault = TRUE, !.res = Null]

(***************************************************************************)
(* The outcomes of the awaited operations.                                 *)
(***************************************************************************)
Resolved(r) == [out |-> "resolve", val |-> r]
Rejected == [out |-> "reject", val |-> Null]
TimedOut == [out |-> "timeout", val |-> Null]
\* executeWithTimeout(setFn(params)): the callback settles or the timer wins.
TimedOutcomes == {Resolved(r) : r \in Results} \cup {Rejected, TimedOut}
\* An awaited callback without timer (getFn; setFn in retryPendingItems).
UntimedOutcomes == {Resolved(r) : r \in Results} \cup {Rejected}

\* error instanceof Error ? error.message : fallback
Message(o) == IF o.out = "timeout" THEN "API call timeout" ELSE "rejected"
StorageMessage == "storage"

\* this.setFn(params) is invoked; the call then awaits its outcome.
InvokeSet(c) == [c EXCEPT !.setCalls = @ + 1]
\* The awaited invocation has settled, or its timer has won the race; the
\* callback of a timed-out invocation is still running (late counts them).
Settled(c, o) ==
    [c EXCEPT !.cbRes = Append(@, IF o.out = "resolve" THEN "ok" ELSE "fail"),
              !.late = IF o.out = "timeout" THEN @ + 1 ELSE @]

\* The callback of a timed-out invocation settles: Promise.race (line 107)
\* has settled already and drops the outcome (dropped counts them).
LateResultNotified(c, o) ==
    IF o.out = "resolve"
    THEN emitData([c EXCEPT !.late = @ - 1, !.dropped = @ + 1], o.val, c.key)
    ELSE [c EXCEPT !.late = @ - 1, !.dropped = @ + 1]
LateResult(c, o) == [c EXCEPT !.late = @ - 1, !.dropped = @ + 1]

(***************************************************************************)
(* savePendingItem (lines 284-309) and removePendingItem (lines 311-326),  *)
(* each cut at its two awaits.  What is saved or removed follows from the  *)
(* caller: callSet saves its params under its storage key, and             *)
(* retryPendingItems works on the item of its loop.                        *)
(***************************************************************************)
CurItem(c) == c.items[c.idx]
SaveParams(c) == IF c.kind = "write" THEN c.args.obj ELSE CurItem(c).params
SaveKey(c) == IF c.kind = "write" THEN c.key ELSE CurItem(c).dataKey

\* The record built at lines 294-300.  lastRetryAttempt, which the code
\* stamps with the time and never reads, is left out.
NewPendingItem(c) ==
    [params |-> SaveParams(c), dataKey |-> SaveKey(c),
     maxRetryCount |-> apiSetRetries[c.unit],
     key |-> UnitKey[c.unit]]

\* pendingItems.filter(item => item.dataKey !== dataKey)
RECURSIVE WithDataKey(_, _)
WithDataKey(items, dataKey) ==
    IF items = << >> THEN << >>
    ELSE IF Head(items).dataKey = dataKey
         THEN <<Head(items)>> \o WithDataKey(Tail(items), dataKey)
         ELSE WithDataKey(Tail(items), dataKey)

RECURSIVE WithoutDataKey(_, _)
WithoutDataKey(items, dataKey) ==
    IF items = << >> THEN << >>
    ELSE IF Head(items).dataKey # dataKey
         THEN <<Head(items)>> \o WithoutDataKey(Tail(items), dataKey)
         ELSE WithoutDataKey(Tail(items), dataKey)

\* pendingItems.filter(item => item.key === this.key)
RECURSIVE OwnedBy(_, _)
OwnedBy(items, key) ==
    IF items = << >> THEN << >>
    ELSE IF Head(items).key = key
         THEN <<Head(items)>> \o OwnedBy(Tail(items), key)
         ELSE OwnedBy(Tail(items), key)

\* The loop of retryPendingItems (line 336) moves to its next item, invoking
\* setFn on it (line 338), or ends the call; without a setFn every round
\* finds an undefined result and does nothing.
NextItem(c) ==
    IF c.idx < Len(c.items) /\ HasSet[c.unit]
    THEN InvokeSet([c EXCEPT !.idx = @ + 1, !.pc = "d_call"])
    ELSE [c EXCEPT !.pc = "done", !.ret = Returned(Null)]

\* The retry loop of callSet (line 226) goes to its next round, invoking
\* setFn (line 228), or is left and callSet returns {data: null} (line 247).
LoopNext(c) ==
    IF c.i + 1 < apiSetRetries[c.unit]
    THEN InvokeSet([c EXCEPT !.i = @ + 1, !.pc = "r_call"])
    ELSE [c EXCEPT !.pc = "done", !.ret = Returned(Null)]

\* savePendingItem or removePendingItem has returned to its caller: callSet
\* goes on after line 224 (no loop is entered: the budget is not positive) or
\* line 241, retryPendingItems goes on with its loop.
AfterQueueUpdate(c) ==
    IF c.kind = "write" THEN LoopNext(c) ELSE NextItem(c)

\* savePendingItem resumes from getItem (line 290).
SaveLoaded(s, ok) ==
    /\ calls[s].pc = "sp_get"
    /\ LET c == calls[s] IN
       calls' = [calls EXCEPT ![s] =
          IF ok
          THEN [StoreOk(c) EXCEPT !.list = Append(pending, NewPendingItem(c)),
                                  !.pc = "sp_set"]
          ELSE AfterQueueUpdate(emitError(StoreFailed(c), "Failed to save pending item",
                                          FALSE, ""))]
    /\ UNCHANGED <<cache, pending, apiSetRetries, uniqueProperties, last, derived, registry, query>>

\* (The catch block of lines 304-308, were it to rethrow.)
SaveStoredRethrows(s, ok) ==
    /\ calls[s].pc = "sp_set"
    /\ LET c == calls[s] IN
       /\ pending' = IF ok THEN c.list ELSE pending
       /\ calls' = [calls EXCEPT ![s] =
            IF ok
            THEN AfterQueueUpdate(StoreOk(c))
            ELSE [StoreFailed(c) EXCEPT !.pc = "done",
                                        !.ret = Threw("Failed to save pending item")]]
    /\ UNCHANGED <<cache, apiSetRetries, uniqueProperties, last, derived, registry, query>>

\* (A write that restored the cache it found once its item is queued.)
SaveStoredRollingBack(s, ok) ==
    /\ calls[s].pc = "sp_set"
    /\ LET c == calls[s] IN
       /\ pending' = IF ok THEN c.list ELSE pending
       /\ cache' = IF c.kind = "write" THEN c.cache0 ELSE cache
       /\ calls' = [calls EXCEPT ![s] =
            IF ok
            THEN AfterQueueUpdate(StoreOk(c))
            ELSE AfterQueueUpdate(emitError(StoreFailed(c), "Failed to save pending item",
                                            FALSE, ""))]
    /\ UNCHANGED <<apiSetRetries, uniqueProperties, last, derived, registry, query>>

\* savePendingItem resumes from setItem (line 303).
SaveStored(s, ok) ==
    /\ calls[s].pc = "sp_set"
    /\ LET c == calls[s] IN
       /\ pending' = IF ok THEN c.list ELSE pending
       /\ calls' = [calls EXCEPT ![s] =
            IF ok
            THEN AfterQueueUpdate(StoreOk(c))
            ELSE AfterQueueUpdate(emitError(StoreFailed(c), "Failed to save pending item",
                                            FALSE, ""))]
    /\ UNCHANGED <<cache, apiSetRetries, uniqueProperties, last, derived, registry, query>>

(***************************************************************************)
(* callSet (lines 190-249).                                                *)
(***************************************************************************)
\* Line 217: the retry budget is 0 (or NaN) or negative.
NoRetries(n) == n = 0 \/ n < 0

\* Line 234: the failed round was the last one of the loop.
LastRoundOffByOne(i, n) == i = n
LastRound(i, n) == i = n - 1

\* Lines 218-224 and 235-241: the error is reported and the write is queued.
GiveUp(c, msg) == [emitError(c, msg, TRUE, c.key) EXCEPT !.pc = "sp_get"]

\* The catch block of the first attempt is entered (line 216).
CatchFirstNeverRetries(c, msg) == GiveUp(c, msg)
CatchFirst(c, msg) ==
    IF NoRetries(apiSetRetries[c.unit])
    THEN GiveUp(c, msg)
    ELSE InvokeSet([c EXCEPT !.i = 0, !.pc = "r_call"])

\* The catch block of a retry round is entered (line 233).
CatchRetryAlwaysQueues(c, msg) == GiveUp(c, msg)
CatchRetry(c, msg) ==
    IF LastRound(c.i, apiSetRetries[c.unit])
    THEN GiveUp(c, msg)
    ELSE LoopNext(c)

\* Lines 212-215 and 229-232 once setItem has stored the result.
SucceedUnnotified(c) == [c EXCEPT !.pc = "done", !.ret = Returned(c.res)]
Succeed(c) == [emitData(c, c.res, c.key) EXCEPT !.pc = "done", !.ret = Returned(c.res)]

\* callSet is called: lines 193-201, up to the await of getItem.
CallSet(s, u, args, interleaved) ==
    /\ CanStart(s, interleaved)
    /\ Len(pending) < MaxPending
    /\ LET c == Started("write", u, args) IN
       IF ~HasSet[u]
       THEN /\ calls' = [calls EXCEPT ![s] =
                    [c EXCEPT !.pc = "done", !.ret = Threw("Set function not defined")]]
            /\ UNCHANGED uniqueProperties
       ELSE IF ~validateArgs(args)
       THEN /\ calls' = [calls EXCEPT ![s] =
                    [c EXCEPT !.pc = "done", !.ret = Threw("validation")]]
            /\ UNCHANGED uniqueProperties
       ELSE /\ calls' = [calls EXCEPT ![s] =
                    [c EXCEPT !.pc = "w_get", !.io = TRUE,
                              !.key = generateStorageKey(UnitKey[u], uniqueProperties[u],
                                                         args.obj)]]
            /\ uniqueProperties' =
                    [uniqueProperties EXCEPT ![u] = SortedInPlace(@)]
    /\ UNCHANGED <<cache, pending, apiSetRetries, last, derived, registry, query>>

\* callSet resumes from getItem (line 201): the optimistic snapshot is built
\* and, when isOnline() (line 139, what window.navigator.onLine reports then)
\* holds, sent to the store; otherwise setFn is invoked (line 211).
SetLoaded(s, ok, isOnline) ==
    /\ calls[s].pc = "w_get"
    /\ ok \/ ~isOnline
    /\ LET c == calls[s] IN
       calls' = [calls EXCEPT ![s] =
          IF ~ok THEN CatchFirst(StoreFailed(c), StorageMessage)
          ELSE LET d == [StoreOk(c) EXCEPT !.existing = getItem(c.key),
                                           !.isOnline = isOnline] IN
               IF isOnline THEN [d EXCEPT !.pc = "w_opt"]
               ELSE InvokeSet([d EXCEPT !.pc = "w_call"])]
    /\ UNCHANGED <<cache, pending, apiSetRetries, uniqueProperties, last, derived, registry, query>>

\* (The snapshot, were it merged over the entry the store holds by then.)
SetSnapshotStoredOverCurrent(s, ok) ==
    /\ calls[s].pc = "w_opt"
    /\ LET c == calls[s] IN
       /\ cache' = IF ok THEN setItem(c.key, Spread(getItem(c.key), c.args.obj)) ELSE cache
       /\ calls' = [calls EXCEPT ![s] =
            IF ok THEN InvokeSet([StoreOk(c) EXCEPT !.pc = "w_call"])
            ELSE CatchFirst(StoreFailed(c), StorageMessage)]
    /\ UNCHANGED <<pending, apiSetRetries, uniqueProperties, last, derived, registry, query>>

\* callSet resumes from setItem of the optimistic snapshot (line 208) and
\* invokes setFn (line 211).
SetSnapshotStored(s, ok) ==
    /\ calls[s].pc = "w_opt"
    /\ LET c == calls[s] IN
       /\ cache' = IF ok THEN setItem(c.key, Spread(c.existing, c.args.obj)) ELSE cache
       /\ calls' = [calls EXCEPT ![s] =
            IF ok THEN InvokeSet([StoreOk(c) EXCEPT !.pc = "w_call"])
            ELSE CatchFirst(StoreFailed(c), StorageMessage)]
    /\ UNCHANGED <<pending, apiSetRetries, uniqueProperties, last, derived, registry, query>>

\* callSet resumes from executeWithTimeout (line 211).
SetSettled(s, o) ==
    /\ calls[s].pc = "w_call"
    /\ LET c == Settled(calls[s], o) IN
       calls' = [calls EXCEPT ![s] =
          IF o.out = "resolve" THEN [c EXCEPT !.res = o.val, !.pc = "w_put"]
          ELSE CatchFirst(c, Message(o))]
    /\ UNCHANGED <<cache, pending, apiSetRetries, uniqueProperties, last, derived, registry, query>>

\* callSet resumes from setItem of the result (line 212).
SetResultStored(s, ok) ==
    /\ calls[s].pc = "w_put"
    /\ LET c == calls[s] IN
       /\ cache' = IF ok THEN setItem(c.key, c.res) ELSE cache
       /\ calls' = [calls EXCEPT ![s] =
            IF ok THEN Succeed(StoreOk(c))
            ELSE CatchFirst(StoreFailed(c), StorageMessage)]
    /\ UNCHANGED <<pending, apiSetRetries, uniqueProperties, last, derived, registry, query>>

\* A retry round resumes from executeWithTimeout (line 228).
RetrySettled(s, o) ==
    /\ calls[s].pc = "r_call"
    /\ LET c == Settled(calls[s], o) IN
       calls' = [calls EXCEPT ![s] =
          IF o.out = "resolve" THEN [c EXCEPT !.res = o.val, !.pc = "r_put"]
          ELSE CatchRetry(c, Message(o))]
    /\ UNCHANGED <<cache, pending, apiSetRetries, uniqueProperties, last, derived, registry, query>>

\* A retry round resumes from setItem of the result (line 229).
RetryResultStored(s, ok) ==
    /\ calls[s].pc = "r_put"
    /\ LET c == calls[s] IN
       /\ cache' = IF ok THEN setItem(c.key, c.res) ELSE cache
       /\ calls' = [calls EXCEPT ![s] =
            IF ok THEN Succeed(StoreOk(c))
            ELSE CatchRetry(StoreFailed(c), StorageMessage)]
    /\ UNCHANGED <<pending, apiSetRetries, uniqueProperties, last, derived, registry, query>>

\* The callback of an invocation that timed out settles while the write is
\* still in flight or its result not yet taken.
LateSettled(s, o) ==
    /\ calls[s].late > 0
    /\ calls' = [calls EXCEPT ![s] = LateResult(calls[s], o)]
    /\ UNCHANGED <<cache, pending, apiSetRetries, uniqueProperties, last, derived, registry, query>>

(***************************************************************************)
(* callGet (lines 149-181), an async generator: the call only creates the  *)
(* generator, and its body runs when the consumer pulls.                   *)
(***************************************************************************)
Yield(c, data, source) ==
    [c EXCEPT !.yields = Append(@, [data |-> data, source |-> source])]

\* Line 162: the entry read from the store is neither undefined nor null.
StoredHitNever(storedData) == FALSE
StoredHit(storedData) == storedData # Null

\* this.getFn(args) is invoked (line 167); the generator awaits its outcome.
InvokeGet(c) == [c EXCEPT !.getCalls = @ + 1, !.pc = "g_call"]

\* The catch block (lines 172-180): the error is reported with the storage
\* key and {data: null, source: "api"} is yielded.
GetFailedWithoutElement(c, msg) ==
    [emitError(c, msg, TRUE, c.key) EXCEPT !.pc = "g_last"]
GetFailedUnnotified(c, msg) ==
    [Yield(c, Null, "api") EXCEPT !.pc = "g_last"]
GetFailed(c, msg) ==
    [Yield(emitError(c, msg, TRUE, c.key), Null, "api") EXCEPT !.pc = "g_last"]

\* callGet(args) is called: the generator object is returned.
CallGet(s, u, args, interleaved) ==
    /\ CanStart(s, interleaved)
    /\ calls' = [calls EXCEPT ![s] = [Started("read", u, args) EXCEPT !.pc = "g_new"]]
    /\ UNCHANGED <<cache, pending, apiSetRetries, uniqueProperties, last, derived, registry, query>>

\* The first pull runs lines 152-160, up to the await of getItem.
GetStarted(s) ==
    /\ calls[s].pc = "g_new"
    /\ LET c == calls[s] IN
       IF ~HasGet[c.unit]
       THEN /\ calls' = [calls EXCEPT ![s] =
                    [c EXCEPT !.pc = "done", !.ret = Threw("Get function not defined")]]
            /\ UNCHANGED uniqueProperties
       ELSE IF ~validateArgs(c.args)
       THEN /\ calls' = [calls EXCEPT ![s] =
                    [c EXCEPT !.pc = "done", !.ret = Threw("validation")]]
            /\ UNCHANGED uniqueProperties
       ELSE /\ calls' = [calls EXCEPT ![s] =
                    [c EXCEPT !.pc = "g_get", !.io = TRUE,
                              !.key = generateStorageKey(UnitKey[c.unit],
                                           uniqueProperties[c.unit], c.args.obj)]]
            /\ uniqueProperties' =
                    [uniqueProperties EXCEPT ![c.unit] = SortedInPlace(@)]
    /\ UNCHANGED <<cache, pending, apiSetRetries, last, derived, registry, query>>

\* The generator resumes from getItem (line 160): a stored entry is notified
\* and yielded (lines 162-165), otherwise getFn is invoked (line 167).
GetLoaded(s, ok) ==
    /\ calls[s].pc = "g_get"
    /\ LET c == calls[s] IN
       calls' = [calls EXCEPT ![s] =
          IF ~ok THEN GetFailed(StoreFailed(c), StorageMessage)
          ELSE IF StoredHit(getItem(c.key))
          THEN [Yield(emitData(StoreOk(c), getItem(c.key), c.key),
                      getItem(c.key), "storage") EXCEPT !.pc = "g_first"]
          ELSE InvokeGet(StoreOk(c))]
    /\ UNCHANGED <<cache, pending, apiSetRetries, uniqueProperties, last, derived, registry, query>>

\* The consumer pulls after the storage element: getFn is invoked (line 167).
GetResumed(s) ==
    /\ calls[s].pc = "g_first"
    /\ calls' = [calls EXCEPT ![s] = InvokeGet(calls[s])]
    /\ UNCHANGED <<cache, pending, apiSetRetries, uniqueProperties, last, derived, registry, query>>

\* (A catch block that also evicted the entry of the failed refresh.)
GetSettledEvicting(s, o) ==
    /\ calls[s].pc = "g_call"
    /\ LET c == Settled(calls[s], o) IN
       /\ calls' = [calls EXCEPT ![s] =
            IF o.out = "resolve" THEN [c EXCEPT !.res = o.val, !.pc = "g_put"]
            ELSE GetFailed(c, Message(o))]
       /\ cache' = IF o.out = "resolve" THEN cache
                   ELSE [k \in DOMAIN cache \ {c.key} |-> cache[k]]
    /\ UNCHANGED <<pending, apiSetRetries, uniqueProperties, last, derived, registry, query>>

\* The generator resumes from getFn (line 167).
GetSettled(s, o) ==
    /\ calls[s].pc = "g_call"
    /\ LET c == Settled(calls[s], o) IN
       calls' = [calls EXCEPT ![s] =
          IF o.out = "resolve" THEN [c EXCEPT !.res = o.val, !.pc = "g_put"]
          ELSE GetFailed(c, Message(o))]
    /\ UNCHANGED <<cache, pending, apiSetRetries, uniqueProperties, last, derived, registry, query>>

\* The generator resumes from setItem (line 168): the value is notified and
\* yielded (lines 170-171).
GetResultStored(s, ok) ==
    /\ calls[s].pc = "g_put"
    /\ LET c == calls[s] IN
       /\ cache' = IF ok THEN setItem(c.key, c.res) ELSE cache
       /\ calls' = [calls EXCEPT ![s] =
            IF ok
            THEN [Yield(emitData(StoreOk(c), c.res, c.key), c.res, "api")
                    EXCEPT !.pc = "g_last"]
            ELSE GetFailed(StoreFailed(c), StorageMessage)]
    /\ UNCHANGED <<pending, apiSetRetries, uniqueProperties, last, derived, registry, query>>

\* The consumer pulls after the api element: the generator is finished.
GetFinished(s) ==
    /\ calls[s].pc = "g_last"
    /\ calls' = [calls EXCEPT ![s] = [calls[s] EXCEPT !.pc = "done", !.ret = Returned(Null)]]
    /\ UNCHANGED <<cache, pending, apiSetRetries, uniqueProperties, last, derived, registry, query>>

(***************************************************************************)
(* getData (lines 257-282).                                                *)
(***************************************************************************)
\* Lines 266-270: a stored entry is returned, anything falsy as undefined.
StoredOrNull(storedData) == storedData
StoredOrUndefined(storedData) == IF storedData # Null THEN storedData ELSE Undefined

\* Line 280: what getData returns when the store failed.
ReturnedError == [tag |-> "data", err |-> "error", data |-> Null]

\* getData is called: lines 260-264, up to the await of getItem.
GetData(s, u, args, interleaved) ==
    /\ CanStart(s, interleaved)
    /\ LET c == Started("data", u, args) IN
       IF ~validateArgs(args)
       THEN /\ calls' = [calls EXCEPT ![s] =
                    [c EXCEPT !.pc = "done", !.ret = Threw("validation")]]
            /\ UNCHANGED uniqueProperties
       ELSE /\ calls' = [calls EXCEPT ![s] =
                    [c EXCEPT !.pc = "gd_get", !.io = TRUE,
                              !.key = generateStorageKey(UnitKey[u], uniqueProperties[u],
                                                         args.obj)]]
            /\ uniqueProperties' =
                    [uniqueProperties EXCEPT ![u] = SortedInPlace(@)]
    /\ UNCHANGED <<cache, pending, apiSetRetries, last, derived, registry, query>>

\* getData resumes from getItem (line 264) and returns (lines 266-280).
GetDataLoaded(s, ok) ==
    /\ calls[s].pc = "gd_get"
    /\ LET c == calls[s] IN
       calls' = [calls EXCEPT ![s] =
          IF ok
          THEN [StoreOk(c) EXCEPT !.pc = "done",
                                  !.ret = Returned(StoredOrUndefined(getItem(c.key)))]
          ELSE [emitError(StoreFailed(c), StorageMessage, FALSE, "")
                  EXCEPT !.pc = "done", !.ret = ReturnedError]]
    /\ UNCHANGED <<cache, pending, apiSetRetries, uniqueProperties, last, derived, registry, query>>

(***************************************************************************)
(* retryPendingItems (lines 328-367).                                      *)
(***************************************************************************)
\* Lines 345-349: the item has no retry left.
ExhaustedNever(maxRetryCount) == FALSE
Exhausted(maxRetryCount) == maxRetryCount = 0 \/ maxRetryCount <= 0

\* How many items the replay may append: one per own item with retries left.
RECURSIVE Reappendable(_)
Reappendable(items) ==
    IF items = << >> THEN 0
    ELSE (IF Exhausted(Head(items).maxRetryCount) THEN 0 ELSE 1) + Reappendable(Tail(items))

\* The catch block of the loop (lines 344-356).
DrainCatch(c) ==
    IF Exhausted(CurItem(c).maxRetryCount)
    THEN [c EXCEPT !.pc = "rp_get"]
    ELSE IF Len(CurItem(c).dataKey) > 0
    THEN [c EXCEPT !.items[c.idx].maxRetryCount = @ - 1, !.pc = "sp_get"]
    ELSE NextItem(c)

\* retryPendingItems runs up to the await of getItem (line 331).
DrainCalled(s, u, interleaved) ==
    /\ CanStart(s, interleaved)
    /\ calls' = [calls EXCEPT ![s] = [Started("drain", u, Idle.args) EXCEPT !.pc = "d_get", !.io = TRUE]]
    /\ UNCHANGED <<cache, pending, apiSetRetries, uniqueProperties, last, derived, query>>

\* A drain is started when the list stays within MaxPending whatever it appends.
DrainStarted(s, u, interleaved) ==
    /\ Len(pending) + Reappendable(OwnedBy(pending, UnitKey[u])) <= MaxPending
    /\ DrainCalled(s, u, interleaved)

\* The application calls retryPendingItems on a unit.
RetryPendingItems(s, u, interleaved) ==
    /\ DrainStarted(s, u, interleaved)
    /\ UNCHANGED registry

\* retryPendingItems resumes from getItem (line 331): its own items are
\* filtered (line 334) and the loop starts; a failure ends the call in the
\* outer catch block (lines 358-366).
DrainLoaded(s, ok) ==
    /\ calls[s].pc = "d_get"
    /\ LET c == calls[s] IN
       calls' = [calls EXCEPT ![s] =
          IF ok
          THEN NextItem([StoreOk(c) EXCEPT !.items = OwnedBy(pending, UnitKey[c.unit])])
          ELSE [emitError(StoreFailed(c), "Failed to retry pending items", FALSE, "")
                  EXCEPT !.pc = "done", !.ret = Returned(Null)]]
    /\ UNCHANGED <<cache, pending, apiSetRetries, uniqueProperties, last, derived, registry, query>>

\* The loop resumes from setFn (line 338).
DrainSettled(s, o) ==
    /\ calls[s].pc = "d_call"
    /\ LET c == Settled(calls[s], o) IN
       calls' = [calls EXCEPT ![s] =
          IF o.out = "resolve"
          THEN IF CurItem(c).dataKey # ""
               THEN [c EXCEPT !.res = o.val, !.pc = "d_put"]
               ELSE NextItem(c)
          ELSE DrainCatch(c)]
    /\ UNCHANGED <<cache, pending, apiSetRetries, uniqueProperties, last, derived, registry, query>>

\* The loop resumes from setItem of the result (line 341) and calls
\* removePendingItem (line 342).
DrainResultStored(s, ok) ==
    /\ calls[s].pc = "d_put"
    /\ LET c == calls[s] IN
       /\ cache' = IF ok THEN setItem(CurItem(c).dataKey, c.res) ELSE cache
       /\ calls' = [calls EXCEPT ![s] =
            IF ok THEN [StoreOk(c) EXCEPT !.pc = "rp_get"]
            ELSE DrainCatch(StoreFailed(c))]
    /\ UNCHANGED <<pending, apiSetRetries, uniqueProperties, last, derived, registry, query>>

\* removePendingItem resumes from getItem (line 314).
RemoveLoaded(s, ok) ==
    /\ calls[s].pc = "rp_get"
    /\ LET c == calls[s] IN
       calls' = [calls EXCEPT ![s] =
          IF ok
          THEN [StoreOk(c) EXCEPT !.list = WithoutDataKey(pending, CurItem(c).dataKey),
                                  !.pc = "rp_set"]
          ELSE AfterQueueUpdate(emitError(StoreFailed(c), "Failed to remove pending item",
                                          FALSE, ""))]
    /\ UNCHANGED <<cache, pending, apiSetRetries, uniqueProperties, last, derived, registry, query>>

\* removePendingItem resumes from setItem (line 320).
RemoveStored(s, ok) ==
    /\ calls[s].pc = "rp_set"
    /\ LET c == calls[s] IN
       /\ pending' = IF ok THEN c.list ELSE pending
       /\ calls' = [calls EXCEPT ![s] =
            IF ok
            THEN AfterQueueUpdate(StoreOk(c))
            ELSE AfterQueueUpdate(emitError(StoreFailed(c), "Failed to remove pending item",
                                            FALSE, ""))]
    /\ UNCHANGED <<cache, apiSetRetries, uniqueProperties, last, derived, registry, query>>

\* A completed call hands its result to whoever awaits it.
Completed(s) ==
    /\ calls[s].pc = "done"
    /\ last' = Summary(calls[s])
    /\ calls' = [calls EXCEPT ![s] = Idle]
    /\ UNCHANGED <<cache, pending, apiSetRetries, uniqueProperties, derived, query>>

\* The application takes the result of a call it made.
Return(s) ==
    /\ registry.run.awaiting # s
    /\ Completed(s)
    /\ UNCHANGED registry

\* The operations of a unit, one call at a time, the write callback settling
\* within the call timeout; NextTimer below has the timer win as well.
Next ==
    \/ \E s \in Slots, u \in Units : \E a \in ValidArgs(u) \cup InvalidArgs : CallSet(s, u, a, FALSE)
    \/ \E s \in Slots, ok \in BOOLEAN, isOnline \in BOOLEAN : SetLoaded(s, ok, isOnline)
    \/ \E s \in Slots, ok \in BOOLEAN : SetSnapshotStored(s, ok)
    \/ \E s \in Slots, o \in UntimedOutcomes : SetSettled(s, o)
    \/ \E s \in Slots, ok \in BOOLEAN : SetResultStored(s, ok)
    \/ \E s \in Slots, o \in UntimedOutcomes : RetrySettled(s, o)
    \/ \E s \in Slots, ok \in BOOLEAN : RetryResultStored(s, ok)
    \/ \E s \in Slots, ok \in BOOLEAN : SaveLoaded(s, ok)
    \/ \E s \in Slots, ok \in BOOLEAN : SaveStored(s, ok)
    \/ \E s \in Slots, u \in Units : \E a \in ValidArgs(u) \cup InvalidArgs : CallGet(s, u, a, FALSE)
    \/ \E s \in Slots : GetStarted(s)
    \/ \E s \in Slots, ok \in BOOLEAN : GetLoaded(s, ok)
    \/ \E s \in Slots : GetResumed(s)
    \/ \E s \in Slots, o \in UntimedOutcomes : GetSettled(s, o)
    \/ \E s \in Slots, ok \in BOOLEAN : GetResultStored(s, ok)
    \/ \E s \in Slots : GetFinished(s)
    \/ \E s \in Slots, u \in Units : \E a \in ValidArgs(u) \cup InvalidArgs : GetData(s, u, a, FALSE)
    \/ \E s \in Slots, ok \in BOOLEAN : GetDataLoaded(s, ok)
    \/ \E s \in Slots, u \in Units : RetryPendingItems(s, u, FALSE)
    \/ \E s \in Slots, ok \in BOOLEAN : DrainLoaded(s, ok)
    \/ \E s \in Slots, o \in UntimedOutcomes : DrainSettled(s, o)
    \/ \E s \in Slots, ok \in BOOLEAN : DrainResultStored(s, ok)
    \/ \E s \in Slots, ok \in BOOLEAN : RemoveLoaded(s, ok)
    \/ \E s \in Slots, ok \in BOOLEAN : RemoveStored(s, ok)
    \/ \E s \in Slots : Return(s)

Spec == Init /\ [][Next]_vars

\* Writes whose callback may also exceed the call timeout (lines 99-108):
\* the timer wins the race, and the callback settles later.
NextTimer ==
    \/ \E s \in Slots, u \in Units : \E a \in ValidArgs(u) \cup InvalidArgs : CallSet(s, u, a, FALSE)
    \/ \E s \in Slots, ok \in BOOLEAN, isOnline \in BOOLEAN : SetLoaded(s, ok, isOnline)
    \/ \E s \in Slots, ok \in BOOLEAN : SetSnapshotStored(s, ok)
    \/ \E s \in Slots, o \in TimedOutcomes : SetSettled(s, o)
    \/ \E s \in Slots, ok \in BOOLEAN : SetResultStored(s, ok)
    \/ \E s \in Slots, o \in TimedOutcomes : RetrySettled(s, o)
    \/ \E s \in Slots, ok \in BOOLEAN : RetryResultStored(s, ok)
    \/ \E s \in Slots, o \in UntimedOutcomes : LateSettled(s, o)
    \/ \E s \in Slots, ok \in BOOLEAN : SaveLoaded(s, ok)
    \/ \E s \in Slots, ok \in BOOLEAN : SaveStored(s, ok)
    \/ \E s \in Slots : Return(s)

SpecTimer == Init /\ [][NextTimer]_vars

\* Two writes in flight at once on a store that accepts every operation:
\* each is suspended at its awaits and the scheduler resumes either (no lock
\* is taken anywhere in lines 190-309).
NextRace ==
    \/ \E s \in Slots, u \in Units : \E a \in ValidArgs(u) : CallSet(s, u, a, TRUE)
    \/ \E s \in Slots, isOnline \in BOOLEAN : SetLoaded(s, TRUE, isOnline)
    \/ \E s \in Slots : SetSnapshotStored(s, TRUE)
    \/ \E s \in Slots, o \in UntimedOutcomes : SetSettled(s, o)
    \/ \E s \in Slots : SetResultStored(s, TRUE)
    \/ \E s \in Slots, o \in UntimedOutcomes : RetrySettled(s, o)
    \/ \E s \in Slots : RetryResultStored(s, TRUE)
    \/ \E s \in Slots : SaveLoaded(s, TRUE)
    \/ \E s \in Slots : SaveStored(s, TRUE)

SpecRace == Init /\ [][NextRace]_vars

\* Writes and drains in turn on a store that accepts every operation, with
\* several params of one unit deriving the same storage key: writes fail and
\* queue their items while the list has fewer than MaxPending, and a drain is
\* started on a list of at most 2 * MaxPending items, what one failing pass
\* over MaxPending items leaves; its own pass may double the list again.
ReplayArgs ==
    << {Obj1("id", NumV(1)), Obj2("id", NumV(1), "t", NumV(1))}, {Obj1("t", NumV(1))} >>

ReplayWrites(u) == {[shape |-> "object", obj |-> o] : o \in ReplayArgs[u]}

PassStarted(s, u) ==
    /\ Len(pending) <= 2 * MaxPending
    /\ DrainCalled(s, u, FALSE)
    /\ UNCHANGED registry

NextReplay ==
    \/ \E s \in Slots, u \in Units : \E a \in ReplayWrites(u) : CallSet(s, u, a, FALSE)
    \/ \E s \in Slots, isOnline \in BOOLEAN : SetLoaded(s, TRUE, isOnline)
    \/ \E s \in Slots : SetSnapshotStored(s, TRUE)
    \/ \E s \in Slots, o \in UntimedOutcomes : SetSettled(s, o)
    \/ \E s \in Slots : SetResultStored(s, TRUE)
    \/ \E s \in Slots, o \in UntimedOutcomes : RetrySettled(s, o)
    \/ \E s \in Slots : RetryResultStored(s, TRUE)
    \/ \E s \in Slots : SaveLoaded(s, TRUE)
    \/ \E s \in Slots : SaveStored(s, TRUE)
    \/ \E s \in Slots, u \in Units : PassStarted(s, u)
    \/ \E s \in Slots : DrainLoaded(s, TRUE)
    \/ \E s \in Slots, o \in UntimedOutcomes : DrainSettled(s, o)
    \/ \E s \in Slots : DrainResultStored(s, TRUE)
    \/ \E s \in Slots : RemoveLoaded(s, TRUE)
    \/ \E s \in Slots : RemoveStored(s, TRUE)
    \/ \E s \in Slots : Return(s)

SpecReplay == Init /\ [][NextReplay]_vars

(***************************************************************************)
(* The SyncEngineApi (lines 370-481): the online listener and                *)
(* retryAllPendingItems.  The listener is the method itself, not bound to    *)
(* the engine (line 478): the window invokes it with the window as its       *)
(* receiver, while engine.retryAllPendingItems() runs it on the engine.      *)
(***************************************************************************)
\* this.definedKeys (line 470) for the receiver the method runs with.
DefinedKeysOf(receiver) == IF receiver = "engine" THEN definedKeys ELSE Undefined

\* retryAllPendingItems is invoked (line 469): iterating over an undefined
\* this.definedKeys throws a TypeError, which rejects the promise of the
\* async method; otherwise the loop of line 470 starts.
ReplayStarted(by, receiver) ==
    /\ registry.run.state # "running"
    /\ \A s \in Slots : calls[s].pc = "idle"
    /\ registry' = [registry EXCEPT !.run =
            IF DefinedKeysOf(receiver) = Undefined
            THEN [NoRun EXCEPT !.by = by, !.state = "rejected"]
            ELSE [NoRun EXCEPT !.by = by, !.state = "running"]]
    /\ UNCHANGED <<cache, pending, apiSetRetries, uniqueProperties, calls, last, derived, query>>

\* The window fires "online": it calls the attached listener (line 478).
Online ==
    /\ registry.listening
    /\ ReplayStarted("event", "window")

\* The application calls engine.retryAllPendingItems().
RetryAllPendingItems == ReplayStarted("call", "engine")

\* The loop of retryAllPendingItems (lines 470-473) calls retryPendingItems
\* on its next unit and awaits it, or is over and the promise resolves.
ReplayStep(s) ==
    /\ registry.run.state = "running"
    /\ registry.run.awaiting = 0
    /\ LET n == Len(registry.run.drained) IN
       IF n < Len(DefinedKeysOf("engine"))
       THEN /\ DrainStarted(s, definedKeys[n + 1], FALSE)
            /\ registry' = [registry EXCEPT !.run.drained = Append(@, definedKeys[n + 1]),
                                            !.run.awaiting = s]
       ELSE /\ s = 1
            /\ registry' = [registry EXCEPT !.run.state = "resolved"]
            /\ UNCHANGED <<cache, pending, apiSetRetries, uniqueProperties, calls, last, derived, query>>

\* The awaited retryPendingItems has completed (line 472).
ReplayResumed(s) ==
    /\ registry.run.awaiting = s
    /\ Completed(s)
    /\ registry' = [registry EXCEPT !.run.awaiting = 0]

\* destroy() (lines 465-467) removes the listener.
Destroy ==
    /\ registry.listening
    /\ registry' = [registry EXCEPT !.listening = FALSE]
    /\ UNCHANGED <<cache, pending, apiSetRetries, uniqueProperties, calls, last, derived, query>>

NextRegistry ==
    \/ \E s \in Slots, u \in Units : \E a \in ValidArgs(u) : CallSet(s, u, a, FALSE)
    \/ \E s \in Slots, ok \in BOOLEAN, isOnline \in BOOLEAN : SetLoaded(s, ok, isOnline)
    \/ \E s \in Slots, ok \in BOOLEAN : SetSnapshotStored(s, ok)
    \/ \E s \in Slots, o \in UntimedOutcomes : SetSettled(s, o)
    \/ \E s \in Slots, ok \in BOOLEAN : SetResultStored(s, ok)
    \/ \E s \in Slots, o \in UntimedOutcomes : RetrySettled(s, o)
    \/ \E s \in Slots, ok \in BOOLEAN : RetryResultStored(s, ok)
    \/ \E s \in Slots, ok \in BOOLEAN : SaveLoaded(s, ok)
    \/ \E s \in Slots, ok \in BOOLEAN : SaveStored(s, ok)
    \/ \E s \in Slots, u \in Units : RetryPendingItems(s, u, FALSE)
    \/ \E s \in Slots, ok \in BOOLEAN : DrainLoaded(s, ok)
    \/ \E s \in Slots, o \in UntimedOutcomes : DrainSettled(s, o)
    \/ \E s \in Slots, ok \in BOOLEAN : DrainResultStored(s, ok)
    \/ \E s \in Slots, ok \in BOOLEAN : RemoveLoaded(s, ok)
    \/ \E s \in Slots, ok \in BOOLEAN : RemoveStored(s, ok)
    \/ \E s \in Slots : Return(s)
    \/ Online
    \/ RetryAllPendingItems
    \/ \E s \in Slots : ReplayStep(s)
    \/ \E s \in Slots : ReplayResumed(s)
    \/ Destroy

SpecRegistry == Init /\ [][NextRegistry]_vars

(***************************************************************************)
(* define (lines 428-454) and getDefined (lines 456-463) on an engine that   *)
(* starts without units, its store empty.  The n-th SyncDefineApi that       *)
(* define constructs is the unit n.                                          *)
(***************************************************************************)
MaxDefines == 3
DefineKeys == {"u", "v", "w"}
DefineProps == {<< >>, <<"">>, <<"id">>}

\* The SyncEngineApi after its constructor: definedKeys = [] and
\* definedKeysMap = {} (lines 372-375); units counts the SyncDefineApi
\* objects handed out, defines the calls of define, threw whether the last
\* one threw.
Engine ==
    [listening |-> TRUE, run |-> NoRun, definedKeys |-> << >>, definedKeysMap |-> << >>,
     units |-> 0, defines |-> 0, threw |-> FALSE]

InitDefine ==
    /\ cache = << >>
    /\ pending = << >>
    /\ apiSetRetries = [u \in Units |-> 0]
    /\ uniqueProperties = [u \in Units |-> DeclaredProps[u]]
    /\ calls = [s \in Slots |-> Idle]
    /\ last = NoRead
    /\ derived = NoDerivation
    /\ registry = Engine
    /\ query = NoQuery

\* Lines 436-438: the names that are non-empty strings.
NonEmptyNames(props) == SelectSeq(props, LAMBDA p : p # "")

\* this.definedKeysMap[params.key] = definition (line 451).
Assigned(map, key, unit) ==
    [k \in (DOMAIN map) \cup {key} |-> IF k = key THEN unit ELSE map[k]]

\* define({key, uniqueProperties}).
Define(key, props) ==
    /\ registry.defines < MaxDefines
    /\ registry' =
          IF NonEmptyNames(props) = << >>
          THEN [registry EXCEPT !.defines = @ + 1, !.threw = TRUE]
          ELSE [registry EXCEPT !.defines = @ + 1, !.threw = FALSE,
                                !.units = @ + 1,
                                !.definedKeysMap = Assigned(@, key, registry.units + 1),
                                !.definedKeys = Append(@, key)]
    /\ UNCHANGED <<cache, pending, apiSetRetries, uniqueProperties, calls, last, derived, query>>

\* getDefined(key) (lines 456-463).
getDefined(key) ==
    IF key \in DOMAIN registry.definedKeysMap
    THEN Returned(registry.definedKeysMap[key])
    ELSE Threw("Key not defined")

\* engine.retryAllPendingItems() (lines 469-474), run to its end: the units
\* whose retryPendingItems it awaited, in the order of its loop.  Every such
\* call finds no pending item and returns.
RetryAllUnits ==
    /\ registry.run.state = "idle"
    /\ registry' = [registry EXCEPT !.run =
          [NoRun EXCEPT !.by = "call", !.state = "resolved",
                        !.drained = [i \in DOMAIN registry.definedKeys |->
                                        getDefined(registry.definedKeys[i]).data]]]
    /\ UNCHANGED <<cache, pending, apiSetRetries, uniqueProperties, calls, last, derived, query>>

NextDefine ==
    \/ \E key \in DefineKeys, props \in DefineProps : Define(key, props)
    \/ RetryAllUnits

SpecDefine == InitDefine /\ [][NextDefine]_vars

(***************************************************************************)
(* Key derivation on its own: two units with the same identity key whose   *)
(* unique properties were declared in any order, each deriving the key of  *)
(* an argument object written as a list of fields.                         *)
(***************************************************************************)
KeyIdentities == {"u", "u|id:1"}
KeyProps == {<< >>, <<"a">>, <<"id">>, <<"a", "id">>, <<"id", "a">>}
KeyFieldNames == {"a", "id", "x"}
\* A number, the string that renders as it, and a string that holds the
\* separators of the key format.
KeyValues == {NumV(1), StrV("1"), StrV("1|id:1")}
KeyFieldSet == {[name |-> n, value |-> v] : n \in KeyFieldNames, v \in KeyValues}
\* The object literals of at most two fields, their names distinct.
KeyFields ==
    {<< >>} \cup {<<f>> : f \in KeyFieldSet}
            \cup {fg \in KeyFieldSet \X KeyFieldSet : fg[1].name # fg[2].name}

Names(list) == {list[i] : i \in DOMAIN list}
\* The object an object literal builds.
ObjOf(fields) ==
    [n \in {fields[i].name : i \in DOMAIN fields} |->
        (CHOOSE f \in Names(fields) : f.name = n).value]

InitKey ==
    /\ cache = << >>
    /\ pending = << >>
    /\ apiSetRetries = [u \in Units |-> 0]
    /\ uniqueProperties = [u \in Units |-> DeclaredProps[u]]
    /\ calls = [s \in Slots |-> Idle]
    /\ last = NoRead
    /\ registry = Constructed
    /\ query = NoQuery
    /\ derived \in {[NoDerivation EXCEPT !.key = k, !.props1 = pp[1], !.props2 = pp[2],
                                         !.fields1 = f1, !.fields2 = f2] :
                      k \in KeyIdentities,
                      pp \in {qq \in KeyProps \X KeyProps : Names(qq[1]) = Names(qq[2])},
                      f1 \in KeyFields, f2 \in KeyFields}

\* Both units derive the key of their argument object.
Derive ==
    /\ derived.key # ""
    /\ ~derived.made
    /\ derived' = [derived EXCEPT
            !.made = TRUE,
            !.key1 = generateStorageKey(derived.key, derived.props1, ObjOf(derived.fields1)),
            !.key2 = generateStorageKey(derived.key, derived.props2, ObjOf(derived.fields2)),
            !.sorted1 = SortedInPlace(derived.props1),
            !.sorted2 = SortedInPlace(derived.props2)]
    /\ UNCHANGED <<cache, pending, apiSetRetries, uniqueProperties, calls, last, registry, query>>

NextKey == Derive

SpecKey == InitKey /\ [][NextKey]_vars

(***************************************************************************)
(* The query function of useAsyncQuery (packages/react, lines 34-54), which *)
(* consumes the elements of one read.  A read produces the element of its  *)
(* callback, a result or null on failure, after the stored entry if there  *)
(* is one.                                                                 *)
(***************************************************************************)
QueryEntities ==
    Results \cup {Obj1("id", NumV(1)), Obj1("t", NumV(1)),
                  Obj2("id", NumV(1), "t", NumV(1))}
ApiElements == {[data |-> d, source |-> "api"] : d \in QueryEntities \cup {Null, Undefined}}
StorageElements == {[data |-> d, source |-> "storage"] : d \in QueryEntities}
ReadSequences == {<<a>> : a \in ApiElements} \cup (StorageElements \X ApiElements)

InitQuery ==
    /\ cache = << >>
    /\ pending = << >>
    /\ apiSetRetries = [u \in Units |-> 0]
    /\ uniqueProperties = [u \in Units |-> DeclaredProps[u]]
    /\ calls = [s \in Slots |-> Idle]
    /\ last = NoRead
    /\ derived = NoDerivation
    /\ registry = Constructed
    /\ query \in {[NoQuery EXCEPT !.elements = e] : e \in ReadSequences}

\* typeof value: "object" for null as for an object.
TypeOf(value) == IF value = Undefined THEN "undefined" ELSE "object"
\* typeName !== null, typeName being the string typeof gave (line 40).
NotNull(typeName) == typeName \in {"undefined", "object"}
\* The test of lines 39-42.
Valid(data) == NotNull(TypeOf(data)) /\ TypeOf(data) # "undefined"
\* !latestData (line 49).
Falsy(value) == value = Null \/ value = Undefined

\* One round of the loop of line 37 on the next element of the read.
QueryTaken ==
    /\ query.ret = NoRet
    /\ query.taken < Len(query.elements)
    /\ LET result == query.elements[query.taken + 1] IN
       query' = IF Valid(result.data)
                THEN [query EXCEPT !.taken = @ + 1, !.latestData = result.data,
                                   !.queryData = result.data]
                ELSE [query EXCEPT !.taken = @ + 1]
    /\ UNCHANGED <<cache, pending, apiSetRetries, uniqueProperties, calls, last, derived, registry>>

\* The read is over: lines 49-53.
QueryReturned ==
    /\ query.ret = NoRet
    /\ query.elements # << >>
    /\ query.taken = Len(query.elements)
    /\ query' = [query EXCEPT !.ret = IF Falsy(query.latestData)
                                      THEN Threw("No data available")
                                      ELSE Returned(query.latestData)]
    /\ UNCHANGED <<cache, pending, apiSetRetries, uniqueProperties, calls, last, derived, registry>>

NextQuery ==
    \/ QueryTaken
    \/ QueryReturned

SpecQuery == InitQuery /\ [][NextQuery]_vars

(***************************************************************************)
(* Properties.                                                             *)
(***************************************************************************)
AllOf(seq, x) == \A i \in DOMAIN seq : seq[i] = x
IsObject(args) == args.shape = "object"
ValidWrite(c) == c.kind = "write" /\ c.pc = "done" /\ IsObject(c.args) /\ HasSet[c.unit]
ValidRead(c) == c.kind = "read" /\ IsObject(c.args) /\ HasGet[c.unit]
Drain(c) == c.kind = "drain" /\ c.pc = "done"
Notified(data, dataKey) == [data |-> data, dataKey |-> dataKey]
Element(data, source) == [data |-> data, source |-> source]

\* C1: a write whose callback fails on every invocation, the storage
\* operations succeeding, on a unit of retry budget n >= 0, has invoked the
\* callback n + 1 times, returns {data: null}, has notified one error, and has
\* appended to the pending list one item with the unit's identity key, the
\* derived storage key and n as its retry count.
WriteExhaustion ==
    \A s \in Slots :
        LET c == calls[s]
            n == apiSetRetries[c.unit]
        IN  (ValidWrite(c) /\ ~c.fault /\ c.cbRes # << >> /\ AllOf(c.cbRes, "fail") /\ n >= 0)
            => /\ c.setCalls = n + 1
               /\ c.ret = Returned(Null)
               /\ Len(c.errEv) = 1
               /\ c.key = generateStorageKey(UnitKey[c.unit], DeclaredProps[c.unit], c.args.obj)
               /\ pending = Append(c.pending0,
                                   [params |-> c.args.obj, dataKey |-> c.key,
                                    maxRetryCount |-> n, key |-> UnitKey[c.unit]])

WriteExhaustionReached ==
    \E s \in Slots :
        /\ ValidWrite(calls[s]) /\ ~calls[s].fault
        /\ apiSetRetries[calls[s].unit] = MaxRetries
        /\ Len(calls[s].cbRes) = MaxRetries + 1 /\ AllOf(calls[s].cbRes, "fail")

\* C2: a write whose callback succeeds with r on its first invocation, the
\* storage operations succeeding, returns {data: r}, leaves r under the
\* storage key, has notified the data observers of r and no error observer,
\* and leaves the pending list as it was.
WriteSuccess ==
    \A s \in Slots :
        LET c == calls[s] IN
        (ValidWrite(c) /\ ~c.fault /\ c.cbRes # << >> /\ c.cbRes[1] = "ok")
        => /\ c.ret = Returned(c.res)
           /\ c.res \in Results
           /\ c.setCalls = 1
           /\ getItem(c.key) = c.res
           /\ c.dataEv = <<Notified(c.res, c.key)>>
           /\ c.errEv = << >>
           /\ pending = c.pending0

WriteSuccessReached ==
    \E s \in Slots :
        /\ ValidWrite(calls[s]) /\ ~calls[s].fault /\ calls[s].cbRes = <<"ok">>
        /\ calls[s].isOnline
        /\ calls[s].cache0 # cache
        /\ pending # << >>

\* C3: a read that finds no entry under its key and whose callback resolves
\* with v, the storage operations succeeding, produces {data: v, source: api}
\* alone; the read of the same key that follows it, its callback resolving
\* with v again, produces {data: v, source: storage}, then {data: v, source: api}.
ReadTwice ==
    \A s \in Slots :
        LET c == calls[s] IN
        (ValidRead(c) /\ c.pc = "done" /\ ~c.fault /\ c.cbRes = <<"ok">>)
        => /\ (c.key \notin DOMAIN c.cache0) => c.yields = <<Element(c.res, "api")>>
           /\ (last.fresh /\ last.key = c.key /\ last.data = c.res)
                => c.yields = <<Element(c.res, "storage"), Element(c.res, "api")>>

ReadTwiceReached ==
    \E s \in Slots :
        /\ ValidRead(calls[s]) /\ calls[s].pc = "done" /\ ~calls[s].fault
        /\ calls[s].cbRes = <<"ok">>
        /\ last.fresh /\ last.key = calls[s].key /\ last.data = calls[s].res
        /\ Len(calls[s].yields) = 2

\* The sources of the elements a read has produced, in order.
Sources(c) == [i \in DOMAIN c.yields |-> c.yields[i].source]

\* C4: whatever the store and the callback do, the elements a read has
\* produced are at most two, at most one of them from storage and it comes
\* first, and a read that ended produced exactly one element from the api,
\* its last one.
ReadCardinality ==
    \A s \in Slots :
        LET c == calls[s] IN
        ValidRead(c)
        => /\ Sources(c) \in {<< >>, <<"storage">>, <<"api">>, <<"storage", "api">>}
           /\ c.pc = "done" => Sources(c) \in {<<"api">>, <<"storage", "api">>}
           /\ c.pc \in {"g_new", "g_get", "g_call", "g_put"} => Sources(c) \in {<< >>, <<"storage">>}

ReadCardinalityReached ==
    \E s \in Slots :
        /\ ValidRead(calls[s]) /\ calls[s].pc = "done" /\ calls[s].fault
        /\ Sources(calls[s]) = <<"storage", "api">>
        /\ calls[s].yields[2].data = Null

\* Two argument objects have the same value, or both none, for every
\* declared property.
Agree(props, o1, o2) ==
    \A p \in Names(props) :
        /\ p \in DOMAIN o1 <=> p \in DOMAIN o2
        /\ p \in DOMAIN o1 => o1[p] = o2[p]

\* C5: for one identity key, two argument objects that agree on every
\* declared unique property derive the same storage key, whatever the order
\* of their fields, the order the properties were declared in, and their other
\* fields.
KeyDeterminism ==
    (derived.made /\ Agree(derived.props1, ObjOf(derived.fields1), ObjOf(derived.fields2)))
    => derived.key1 = derived.key2

KeyDeterminismReached ==
    /\ derived.made
    /\ derived.props1 # derived.props2
    /\ derived.fields1 # derived.fields2
    /\ ObjOf(derived.fields1) = ObjOf(derived.fields2)
    /\ Names(derived.props1) = DOMAIN ObjOf(derived.fields1)
    /\ Cardinality(Names(derived.props1)) > 1

\* A read or a write, on a unit that has the callback, whose argument is not
\* a plain object.
Configured(c) ==
    \/ c.kind = "read" /\ HasGet[c.unit]
    \/ c.kind = "write" /\ HasSet[c.unit]
InvalidCall(c) == c.kind \in {"read", "write"} /\ Configured(c) /\ ~IsObject(c.args)

ReplaySuccess ==
    \A s \in Slots :
        LET c == calls[s]
            own == OwnedBy(c.pending0, UnitKey[c.unit])
        IN  (Drain(c) /\ ~c.fault /\ Len(own) = 1 /\ c.cbRes = <<"ok">>)
            => /\ \A i \in DOMAIN pending : pending[i] # own[1]
               /\ c.res \in Results
               /\ getItem(own[1].dataKey) = c.res

ReplaySuccessReached ==
    \E s \in Slots :
        /\ Drain(calls[s]) /\ ~calls[s].fault /\ calls[s].cbRes = <<"ok">>
        /\ Len(OwnedBy(calls[s].pending0, UnitKey[calls[s].unit])) = 1
        /\ Len(calls[s].pending0) > 1
        /\ pending # << >>

\* C8: after a replay whose storage operations succeeded, the pending list
\* holds no item with the dataKey and the owner of an item that had no retry
\* left and whose callback failed.
ReplayExhaustion ==
    \A s \in Slots :
        LET c == calls[s]
            own == OwnedBy(c.pending0, UnitKey[c.unit])
        IN  (Drain(c) /\ ~c.fault)
            => \A i \in DOMAIN c.cbRes :
                 (c.cbRes[i] = "fail" /\ own[i].maxRetryCount <= 0)
                 => \A j \in DOMAIN pending :
                      ~(pending[j].dataKey = own[i].dataKey /\ pending[j].key = own[i].key)

ReplayExhaustionReached ==
    \E s \in Slots :
        LET c == calls[s]
            own == OwnedBy(c.pending0, UnitKey[c.unit])
        IN  /\ Drain(c) /\ ~c.fault
            /\ Len(c.pending0) > 1
            /\ \E i \in DOMAIN c.cbRes : c.cbRes[i] = "fail" /\ own[i].maxRetryCount <= 0

\* The items of a pending list that other units own, in the list's order.
RECURSIVE NotOwnedBy(_, _)
NotOwnedBy(items, key) ==
    IF items = << >> THEN << >>
    ELSE IF Head(items).key # key
         THEN <<Head(items)>> \o NotOwnedBy(Tail(items), key)
         ELSE NotOwnedBy(Tail(items), key)

\* C9: a replay leaves the items of the other units in the pending list,
\* each as it was.
OwnerIsolation ==
    \A s \in Slots :
        LET c == calls[s] IN
        c.kind = "drain"
        => NotOwnedBy(pending, UnitKey[c.unit]) = NotOwnedBy(c.pending0, UnitKey[c.unit])

\* C10: a write with valid params on a unit with a write callback, whatever
\* the callback and the store do, ends by returning {data: result} or
\* {data: null}, never by throwing, and has notified an error when it returns
\* {data: null}.
WriteNeverThrows ==
    \A s \in Slots :
        LET c == calls[s] IN
        ValidWrite(c)
        => /\ c.ret.tag = "data"
           /\ c.ret.data = Null \/ (c.ret.data = c.res /\ c.res \in Results)
           /\ c.ret.data = Null => Len(c.errEv) >= 1

WriteNeverThrowsReached ==
    \E s \in Slots :
        /\ ValidWrite(calls[s]) /\ calls[s].ret = Returned(Null)
        /\ calls[s].fault
        /\ Len(calls[s].cbRes) > 1
        /\ \E i \in DOMAIN calls[s].errEv : calls[s].errEv[i].msg = "API call timeout"

\* C11: a read whose callback rejected, or one of whose storage operations
\* failed, has notified the error observers once, with the reason of the
\* failure and the derived storage key, has produced {data: null, source: api}
\* as its last element, and ends without throwing.
ReadFailureChannel ==
    \A s \in Slots :
        LET c == calls[s] IN
        (/\ ValidRead(c) /\ c.pc \in {"g_last", "done"}
         /\ c.fault \/ c.cbRes = <<"fail">>)
        => /\ c.errEv = <<[msg |-> IF c.fault THEN StorageMessage ELSE Message(Rejected),
                           hasKey |-> TRUE, dataKey |-> c.key]>>
           /\ c.key = generateStorageKey(UnitKey[c.unit], DeclaredProps[c.unit], c.args.obj)
           /\ c.yields # << >>
           /\ c.yields[Len(c.yields)] = Element(Null, "api")
           /\ c.pc = "done" => c.ret = Returned(Null)

ReadFailureChannelReached ==
    \E s \in Slots :
        /\ ValidRead(calls[s]) /\ calls[s].pc = "done"
        /\ calls[s].cbRes = <<"fail">>
        /\ Len(calls[s].yields) = 2

\* C12: a run of retryAllPendingItems that the online event started, while
\* the listener was attached, ends having called retryPendingItems on every
\* registered unit, in the order of registration, each call made after the
\* one before it completed.
ReplayOnReconnect ==
    (registry.run.by = "event" /\ registry.run.state # "running")
    => /\ registry.run.state = "resolved"
       /\ registry.run.drained = definedKeys

\* The failing replays a list of items can still take before it is empty:
\* an item with k retries left is gone after k + 1 of them.
RECURSIVE PassesLeft(_)
PassesLeft(items) ==
    IF items = << >> THEN 0
    ELSE LET k == Head(items).maxRetryCount
             own == IF k > 0 THEN k + 1 ELSE 1
             rest == PassesLeft(Tail(items))
         IN  IF own > rest THEN own ELSE rest

\* C13: the items of a unit are gone after finitely many failing replays, at
\* most remainingRetries + 1 for each item: a replay of the unit whose
\* callback failed on every item, the storage operations succeeding, leaves
\* the unit's items at least one replay closer to being gone.
PendingItemsDestroyed ==
    \A s \in Slots :
        LET c == calls[s]
            before == OwnedBy(c.pending0, UnitKey[c.unit])
            after == OwnedBy(pending, UnitKey[c.unit])
        IN  (/\ Drain(c) /\ ~c.fault /\ before # << >>
             /\ Len(c.cbRes) = Len(before) /\ AllOf(c.cbRes, "fail"))
            => /\ PassesLeft(after) < PassesLeft(before)
               /\ Len(after) <= Len(before)

\* The text "|name:value" of every declared property present in args, the
\* properties taken in the order of their names.
RECURSIVE SeparatedPairs(_, _, _)
SeparatedPairs(i, props, args) ==
    IF i > Len(LocaleOrder) THEN ""
    ELSE LET p == LocaleOrder[i] IN
         (IF p \in Names(props) /\ p \in DOMAIN args
          THEN "|" \o p \o ":" \o Render(args[p]) ELSE "")
         \o SeparatedPairs(i + 1, props, args)
NonePresent(props, args) == \A p \in Names(props) : p \notin DOMAIN args

\* C14, as the claim has it: the derived key is the identity key when no
\* unique property is declared, and otherwise the identity key, the
\* separator "|", and the "name:value" pairs of the declared properties
\* present in args, sorted by name and joined with "|", also when none of
\* the declared properties is present.
KeyFormatAlwaysSeparated ==
    derived.made
    => LET args == ObjOf(derived.fields1) IN
       derived.key1 =
            IF derived.props1 = << >> THEN derived.key
            ELSE IF NonePresent(derived.props1, args) THEN derived.key \o "|"
            ELSE derived.key \o SeparatedPairs(1, derived.props1, args)

\* C14, amended: the derived key is the identity key when no unique
\* property is declared or none of the declared properties is present in
\* args, and otherwise the identity key, the separator "|", and the
\* "name:value" pairs of the declared properties present in args, sorted by
\* name and joined with "|".
KeyFormat ==
    derived.made
    => LET args == ObjOf(derived.fields1) IN
       derived.key1 =
            IF derived.props1 = << >> \/ NonePresent(derived.props1, args) THEN derived.key
            ELSE derived.key \o SeparatedPairs(1, derived.props1, args)

KeyFormatReached ==
    /\ derived.made
    /\ derived.props1 = <<"id", "a">>
    /\ DOMAIN ObjOf(derived.fields1) = {"a", "id"}
    /\ derived.key1 = derived.key \o "|a:1|id:1"

\* C15: getData invokes no callback and leaves every cached entry and the
\* pending list as they were; when the store answers, it returns the entry
\* now cached under the storage key derived from its args, and undefined as
\* the data when there is none.
GetDataLocalOnly ==
    \A s \in Slots :
        LET c == calls[s] IN
        c.kind = "data"
        => /\ c.getCalls = 0 /\ c.setCalls = 0 /\ c.cbRes = << >>
           /\ cache = c.cache0 /\ pending = c.pending0
           /\ (c.pc = "done" /\ IsObject(c.args) /\ ~c.fault)
              => /\ c.key = generateStorageKey(UnitKey[c.unit], DeclaredProps[c.unit],
                                               c.args.obj)
                 /\ c.ret = Returned(IF c.key \in DOMAIN cache THEN cache[c.key]
                                     ELSE Undefined)

GetDataLocalOnlyReached ==
    \E s \in Slots :
        /\ calls[s].kind = "data" /\ calls[s].pc = "done" /\ ~calls[s].fault
        /\ calls[s].ret.tag = "data" /\ calls[s].ret.data \in Results
        /\ pending # << >>

\* The positions of a list that hold a record of the pending write of item.
SameWrite(items, item) ==
    {j \in DOMAIN items : /\ items[j].params = item.params
                          /\ items[j].dataKey = item.dataKey
                          /\ items[j].key = item.key}

\* C16: after a replay whose storage operations succeeded, a pending write
\* that had one item, with k > 0 retries left, and whose callback failed has
\* one item in the pending list, with the same params, dataKey and owner and
\* with k - 1 retries left.
DrainDecrements ==
    \A s \in Slots :
        LET c == calls[s]
            own == OwnedBy(c.pending0, UnitKey[c.unit])
        IN  (Drain(c) /\ ~c.fault)
            => \A i \in DOMAIN c.cbRes :
                 (/\ c.cbRes[i] = "fail" /\ own[i].maxRetryCount > 0
                  /\ Cardinality(SameWrite(c.pending0, own[i])) = 1)
                 => /\ Cardinality(SameWrite(pending, own[i])) = 1
                    /\ \A j \in SameWrite(pending, own[i]) :
                         pending[j].maxRetryCount = own[i].maxRetryCount - 1

\* C17: a read has invoked the read callback, once, by the time it ends,
\* also when loading the cached entry failed; its last element is then
\* what the callback gave: no read ends with {data: null, source: api}
\* without the callback having settled.
RefreshAfterLoadFailure ==
    \A s \in Slots :
        LET c == calls[s] IN
        (ValidRead(c) /\ c.pc = "done")
        => /\ c.getCalls = 1
           /\ Len(c.cbRes) = 1

\* C18: while the first invocation of the write callback is awaited, the
\* entry under the storage key is params merged over the entry cached when
\* the write was called if the write found the host online, every other
\* entry being as it was; the cache is as it was if the write found it
\* offline.
OptimisticSnapshot ==
    \A s \in Slots :
        LET c == calls[s]
            k == c.key
            p == c.args.obj
            old == c.cache0
        IN  (c.kind = "write" /\ c.pc = "w_call")
            => IF c.isOnline
               THEN /\ DOMAIN cache = DOMAIN old \cup {k}
                    /\ \A j \in DOMAIN old : j # k => cache[j] = old[j]
                    /\ DOMAIN cache[k] = DOMAIN p \cup (IF k \in DOMAIN old
                                                        THEN DOMAIN old[k] ELSE {})
                    /\ \A x \in DOMAIN cache[k] :
                         cache[k][x] = IF x \in DOMAIN p THEN p[x] ELSE old[k][x]
               ELSE cache = old

OptimisticSnapshotReached ==
    \E s \in Slots :
        LET c == calls[s] IN
        /\ c.kind = "write" /\ c.pc = "w_call" /\ c.isOnline
        /\ c.key \in DOMAIN c.cache0
        /\ cache[c.key] # c.cache0[c.key]
        /\ cache[c.key] # c.args.obj

\* C19: a write whose first attempt failed and whose retry number j was the
\* first to succeed, with r, the storage operations succeeding, has invoked
\* the callback j + 1 times, j being within the retry budget, returns
\* {data: r}, leaves r under the storage key, has notified the data
\* observers of r and no error observer, and has appended no pending item.
RetryShortCircuits ==
    \A s \in Slots :
        LET c == calls[s]
            j == Len(c.cbRes) - 1
        IN  (/\ ValidWrite(c) /\ ~c.fault /\ j >= 1
             /\ c.cbRes[j + 1] = "ok"
             /\ \A i \in 1..j : c.cbRes[i] = "fail")
            => /\ j <= apiSetRetries[c.unit]
               /\ c.setCalls = j + 1
               /\ c.res \in Results
               /\ c.ret = Returned(c.res)
               /\ getItem(c.key) = c.res
               /\ c.dataEv = <<Notified(c.res, c.key)>>
               /\ c.errEv = << >>
               /\ pending = c.pending0

RetryShortCircuitsReached ==
    \E s \in Slots :
        /\ ValidWrite(calls[s]) /\ ~calls[s].fault
        /\ Len(calls[s].cbRes) = MaxRetries + 1
        /\ calls[s].cbRes[MaxRetries + 1] = "ok"
        /\ pending # << >>

Timeouts(c) == c.late + c.dropped
LateStep(s) == calls'[s].dropped > calls[s].dropped

\* C20: a write all of whose attempts failed, one at least by its timer
\* firing, the storage operations succeeding, has invoked the callback
\* n + 1 times on a unit of retry budget n, returns {data: null}, has
\* notified one error and no data, and has appended one pending item; and
\* the step in which the callback of a timed-out attempt delivers its result
\* changes no cached entry, notifies no observer and leaves the call's
\* result and returned value as they were.
TimeoutIsFailure ==
    /\ [](\A s \in Slots :
            LET c == calls[s]
                n == apiSetRetries[c.unit]
            IN  (ValidWrite(c) /\ ~c.fault /\ AllOf(c.cbRes, "fail") /\ Timeouts(c) >= 1)
                => /\ c.setCalls = n + 1
                   /\ Len(c.cbRes) = n + 1
                   /\ c.ret = Returned(Null)
                   /\ Len(c.errEv) = 1
                   /\ c.dataEv = << >>
                   /\ pending = Append(c.pending0,
                                       [params |-> c.args.obj, dataKey |-> c.key,
                                        maxRetryCount |-> n, key |-> UnitKey[c.unit]]))
    /\ [][\A s \in Slots :
            LateStep(s) => /\ cache' = cache
                           /\ pending' = pending
                           /\ calls'[s].dataEv = calls[s].dataEv
                           /\ calls'[s].errEv = calls[s].errEv
                           /\ calls'[s].res = calls[s].res
                           /\ calls'[s].ret = calls[s].ret]_vars

TimeoutIsFailureReached ==
    \E s \in Slots :
        /\ ValidWrite(calls[s]) /\ ~calls[s].fault
        /\ Len(calls[s].cbRes) = MaxRetries + 1 /\ AllOf(calls[s].cbRes, "fail")
        /\ calls[s].dropped >= 1 /\ calls[s].late >= 1

\* The pending item of a write that gave up, and how often a list holds it.
QueuedBy(c) ==
    [params |-> c.args.obj, dataKey |-> c.key,
     maxRetryCount |-> apiSetRetries[c.unit], key |-> UnitKey[c.unit]]
Occurrences(items, item) == Cardinality({i \in DOMAIN items : items[i] = item})
GaveUp(c) == ValidWrite(c) /\ c.cbRes # << >> /\ AllOf(c.cbRes, "fail")

\* C21: once two writes that were in flight together have both given up and
\* completed, the persisted pending list holds the item of each (twice, when
\* the two items are equal).
PendingUpdatesKept ==
    \A s, t \in Slots :
        (s # t /\ GaveUp(calls[s]) /\ GaveUp(calls[t]))
        => /\ Occurrences(pending, QueuedBy(calls[s])) >= 1
           /\ Occurrences(pending, QueuedBy(calls[t])) >= 1
           /\ QueuedBy(calls[s]) = QueuedBy(calls[t])
                  => Occurrences(pending, QueuedBy(calls[s])) >= 2

\* C22: the optimistic snapshot a write persists is its params over the
\* entry that write loaded, whatever the store holds under the key by then;
\* so of two online writes on one storage key that both loaded before either
\* persisted, the snapshot persisted second lacks the fields of the first.
SnapshotOverLoadedEntry ==
    [][\A s \in Slots :
          LET c == calls[s]
              p == c.args.obj
              loaded == IF c.existing = Null THEN << >> ELSE c.existing
          IN  (c.kind = "write" /\ c.pc = "w_opt" /\ calls'[s].pc = "w_call")
              => /\ DOMAIN cache'[c.key] = DOMAIN p \cup DOMAIN loaded
                 /\ \A x \in DOMAIN cache'[c.key] :
                       cache'[c.key][x] = IF x \in DOMAIN p THEN p[x] ELSE loaded[x]]_vars

SameKeyWriteRace ==
    \E s, t \in Slots :
        LET c == calls[s]
            d == calls[t]
        IN  /\ s # t
            /\ c.kind = "write" /\ d.kind = "write"
            /\ c.pc = "w_call" /\ d.pc = "w_call"
            /\ c.isOnline /\ d.isOnline
            /\ c.key = d.key
            /\ c.existing = d.existing
            /\ cache[c.key] = Spread(d.existing, d.args.obj)
            /\ \E x \in DOMAIN c.args.obj : x \notin DOMAIN cache[c.key]

SaveFailure == [msg |-> "Failed to save pending item", hasKey |-> FALSE, dataKey |-> ""]
\* The step in which savePendingItem, called by a write, fails: its getItem
\* rejects, or its setItem does and the list stays.
SaveFails(s) ==
    /\ calls[s].kind = "write"
    /\ \/ calls[s].pc = "sp_get" /\ calls'[s].pc # "sp_set"
       \/ calls[s].pc = "sp_set" /\ pending' = pending

\* C23: when savePendingItem fails to load or to persist the pending list
\* for a write that gave up, the error observers are notified of the
\* failure, the write ends returning {data: null} without throwing, and the
\* pending list is as it was when the write was called.
EnqueueBestEffort ==
    [][\A s \in Slots :
          SaveFails(s)
          => /\ calls'[s].errEv = Append(calls[s].errEv, SaveFailure)
             /\ calls'[s].pc = "done"
             /\ calls'[s].ret = Returned(Null)
             /\ pending' = calls[s].pending0]_vars

EnqueueBestEffortReached ==
    \E s \in Slots :
        LET c == calls[s] IN
        /\ GaveUp(c) /\ c.fault
        /\ Len(c.errEv) = 2 /\ c.errEv[2] = SaveFailure
        /\ c.ret = Returned(Null)
        /\ pending = c.pending0 /\ pending # << >>

\* C24: no identity key occurs twice in definedKeys, every unit that define
\* handed out is the one getDefined returns for some key, and a run of
\* retryAllPendingItems has called retryPendingItems once on each unit
\* defined by then.
UniqueIdentityKeys ==
    LET keys == registry.definedKeys
        drained == registry.run.drained
    IN  /\ \A i, j \in DOMAIN keys : i # j => keys[i] # keys[j]
        /\ \A n \in 1..registry.units :
              \E k \in DOMAIN registry.definedKeysMap : getDefined(k) = Returned(n)
        /\ registry.run.state = "resolved"
              => \A n \in 1..Len(drained) :
                    Cardinality({i \in DOMAIN drained : drained[i] = n}) = 1

\* The elements of a read that carry data.
WithData(elements) == SelectSeq(elements, LAMBDA e : e.data # Null /\ e.data # Undefined)

\* C25: the query function resolves with the data of the last element of
\* the read that carried data, and throws "No data available" when no
\* element did.
StaleDataRendered ==
    query.ret # NoRet
    => LET valid == WithData(query.elements) IN
       query.ret = IF valid = << >> THEN Threw("No data available")
                   ELSE Returned(valid[Len(valid)].data)

\* C26: a write one of whose invocations of the callback resolved has made
\* no invocation after that one, and returns {data: r} for a result r.
NoRedelivery ==
    \A s \in Slots :
        LET c == calls[s] IN
        (ValidWrite(c) /\ \E i \in DOMAIN c.cbRes : c.cbRes[i] = "ok")
        => /\ \A i \in DOMAIN c.cbRes : c.cbRes[i] = "ok" => i = c.setCalls
           /\ c.ret.tag = "data"
           /\ c.ret.data \in Results

\* C27: a read whose callback rejected, the storage operations succeeding,
\* leaves every cached entry and the pending list as they were when it started
\* and has produced the stored entry, if any, then {data: null, source: api};
\* and every read whose callback was invoked with an entry stored under its
\* key has produced that entry first, as {data: entry, source: storage}: so
\* does the read that follows a failed one.
StaleValueKept ==
    \A s \in Slots :
        LET c == calls[s]
            stored == IF c.key \in DOMAIN c.cache0
                      THEN <<Element(c.cache0[c.key], "storage")>> ELSE << >>
        IN
        /\ (ValidRead(c) /\ c.cbRes = <<"fail">> /\ ~c.fault)
           => /\ cache = c.cache0
              /\ pending = c.pending0
              /\ c.yields = stored \o <<Element(Null, "api")>>
        /\ (ValidRead(c) /\ c.getCalls > 0 /\ c.key \in DOMAIN c.cache0)
           => /\ c.yields # << >>
              /\ c.yields[1] = Element(c.cache0[c.key], "storage")

StaleValueKeptReached ==
    \E s \in Slots :
        /\ ValidRead(calls[s]) /\ calls[s].pc = "done" /\ ~calls[s].fault
        /\ calls[s].cbRes = <<"fail">>
        /\ calls[s].key \in DOMAIN cache
        /\ pending # << >>

\* C28: a write that found the host online and whose attempts all failed,
\* the storage operations succeeding, returns {data: null} and leaves under
\* its storage key the optimistic snapshot, the fields of params over those of
\* the entry cached when the write was called, every other entry being as it
\* was: the snapshot is not rolled back.
SnapshotNotRolledBack ==
    \A s \in Slots :
        LET c == calls[s]
            k == c.key
            p == c.args.obj
            old == c.cache0
        IN  (GaveUp(c) /\ c.isOnline /\ ~c.fault)
            => /\ c.ret = Returned(Null)
               /\ DOMAIN cache = DOMAIN old \cup {k}
               /\ \A j \in DOMAIN old : j # k => cache[j] = old[j]
               /\ DOMAIN cache[k] = DOMAIN p \cup (IF k \in DOMAIN old
                                                   THEN DOMAIN old[k] ELSE {})
               /\ \A x \in DOMAIN cache[k] :
                    cache[k][x] = IF x \in DOMAIN p THEN p[x] ELSE old[k][x]

SnapshotNotRolledBackReached ==
    \E s \in Slots :
        LET c == calls[s] IN
        /\ GaveUp(c) /\ c.isOnline /\ ~c.fault
        /\ Len(c.cbRes) > 1
        /\ c.key \in DOMAIN c.cache0
        /\ cache[c.key] # c.cache0[c.key]
        /\ cache[c.key] # c.args.obj

\* C29: at the end of a drain pass whose storage operations succeeded, every
\* item of the unit that the pass found in the list and that is in the list no
\* more was delivered, an invocation of the pass having succeeded with its
\* params for its dataKey, or had no retry left when its own invocation failed.
DroppedForOwnReason ==
    \A s \in Slots :
        LET c == calls[s]
            own == OwnedBy(c.pending0, UnitKey[c.unit])
        IN  (Drain(c) /\ ~c.fault)
            => \A i \in DOMAIN own :
                 Occurrences(pending, own[i]) = 0
                 => \/ \E j \in DOMAIN own :
                         /\ c.cbRes[j] = "ok"
                         /\ own[j].params = own[i].params
                         /\ own[j].dataKey = own[i].dataKey
                    \/ c.cbRes[i] = "fail" /\ Exhausted(own[i].maxRetryCount)

\* The write an item stands for: its params and its dataKey.
SameItemWrite(x, y) == x.params = y.params /\ x.dataKey = y.dataKey

\* C30: a drain pass invokes the callback for the pending writes of one
\* dataKey in the order they were issued: once it has invoked the callback for
\* one write and then for another write of the same dataKey, it does not
\* invoke it for the first again, an older write never following a newer one
\* within the pass.
ReplayInOrder ==
    \A s \in Slots :
        LET c == calls[s] IN
        c.kind = "drain"
        => \A i, j, k \in 1..c.idx :
              (/\ i < j /\ j < k
               /\ c.items[i].dataKey = c.items[j].dataKey
               /\ SameItemWrite(c.items[i], c.items[k]))
              => SameItemWrite(c.items[i], c.items[j])

\* C31: for one identity key and one declared list of unique properties, two
\* argument objects that differ on a declared property, one having it and the
\* other not, or both having it with different values, derive different
\* storage keys.
KeyInjective ==
    (/\ derived.made
     /\ derived.props1 = derived.props2
     /\ ~Agree(derived.props1, ObjOf(derived.fields1), ObjOf(derived.fields2)))
    => derived.key1 # derived.key2

====
